---- MODULE Spec2Model ----
(***************************************************************************)
(* Employee record store: the HTTP routes of server.js and the tools of    *)
(* mcp-server.mjs, both working on the one employees.json document.        *)
(*                                                                         *)
(* JavaScript values are tagged records; strings are sequences of          *)
(* one-character strings, so that trim() and replace(/\D/g, "") are        *)
(* computed character by character.                                        *)
(***************************************************************************)
EXTENDS Integers, Sequences, FiniteSets, TLC

\* ------------------------------------------------------------------ bounds
\* Largest number of records a Create is tried on (the model's cap on the
\* collection's length).
MaxRecords == 2
\* Largest id a Create may assign in the model.
MaxId == 3

\* ------------------------------------------------------- JavaScript values
Undef == [t |-> "undefined"]
Null == [t |-> "null"]
Str(s) == [t |-> "string", s |-> s]
Num(n) == [t |-> "number", n |-> n]

IsStr(v) == v.t = "string"
IsNum(v) == v.t = "number"

Digits == <<"0", "1", "2", "3", "4", "5", "6", "7", "8", "9">>
IsDigit(c) == \E i \in 1..Len(Digits) : Digits[i] = c
IsSpace(c) == c = " "

\* Decimal rendering of a non-negative integer, as String(n) gives it.
RECURSIVE NumToStr(_)
NumToStr(n) ==
  IF n < 10 THEN <<Digits[n + 1]>>
  ELSE Append(NumToStr(n \div 10), Digits[(n % 10) + 1])

\* String(v)
JsString(v) ==
  CASE v.t = "string" -> v.s
    [] v.t = "number" -> NumToStr(v.n)
    [] v.t = "null" -> <<"n", "u", "l", "l">>
    [] OTHER -> <<"u", "n", "d", "e", "f", "i", "n", "e", "d">>

\* s.trim()
RECURSIVE TrimLeft(_)
TrimLeft(s) ==
  IF s # <<>> /\ IsSpace(Head(s)) THEN TrimLeft(Tail(s)) ELSE s
RECURSIVE TrimRight(_)
TrimRight(s) ==
  IF s # <<>> /\ IsSpace(s[Len(s)]) THEN TrimRight(SubSeq(s, 1, Len(s) - 1)) ELSE s
Trim(s) == TrimRight(TrimLeft(s))

\* !v : the falsy values among those a JSON body carries
Falsy(v) ==
  \/ v.t = "undefined"
  \/ v.t = "null"
  \/ (v.t = "string" /\ v.s = <<>>)
  \/ (v.t = "number" /\ v.n = 0)

\* a || d
OrElse(a, d) == IF Falsy(a) THEN d ELSE a
\* a ?? d
Coalesce(a, d) == IF a.t \in {"undefined", "null"} THEN d ELSE a

\* ------------------------------------------------------------- the store
\* The backing document: absent, or the JSON array last written.
NoFile == [exists |-> FALSE]
Doc(records) == [exists |-> TRUE, records |-> records]

\* loadEmployees(): an absent document reads as the empty collection.
loadEmployees(f) == IF f.exists THEN f.records ELSE <<>>
\* saveEmployees(employees): the whole collection replaces the document.
saveEmployees(employees) == Doc(employees)

Ids(employees) == {employees[i].id : i \in 1..Len(employees)}
MaxOf(S) == CHOOSE m \in S : \A x \in S : x <= m

\* Variant: the next id taken from the collection's length.
getNextIdByLength(employees) == Len(employees) + 1
\* Variant: the next id is the lowest id no record carries.
getNextIdLowestFree(employees) ==
  CHOOSE k \in 1..(Len(employees) + 1) :
    /\ k \notin Ids(employees)
    /\ \A j \in 1..(k - 1) : j \in Ids(employees)
\* Variant of the tool's copy: the next id taken from the collection's length.
mcpNextIdByLength(employees) == Len(employees) + 1

\* getNextId of server.js
getNextId(employees) ==
  IF Len(employees) = 0 THEN 1 ELSE MaxOf(Ids(employees)) + 1
\* getNextId of mcp-server.mjs
mcpGetNextId(employees) ==
  IF Len(employees) = 0 THEN 1 ELSE MaxOf(Ids(employees)) + 1

\* employees.findIndex((e) => e.id === id); 0 stands for -1
FindIndex(employees, id) ==
  IF \E i \in 1..Len(employees) : employees[i].id = id
  THEN CHOOSE i \in 1..Len(employees) :
         /\ employees[i].id = id
         /\ \A j \in 1..(i - 1) : employees[j].id # id
  ELSE 0

\* employees.filter((e) => e.id !== id)
FilterOut(employees, id) == SelectSeq(employees, LAMBDA e : e.id # id)

\* ------------------------------------------------------------ validation
\* Length the digit string of a phone must have.
PhoneLen == 10

\* rawPhone.replace(/\D/g, "")
StripNonDigits(s) == SelectSeq(s, IsDigit)
\* String(data.phone || "").trim().replace(/\D/g, "")
PhoneDigits(v) == StripNonDigits(Trim(JsString(OrElse(v, Str(<<>>)))))
\* Variant: a phone of ten digits or more passes.
PhoneAtLeast(digits) == Len(digits) >= PhoneLen
\* phoneDigits.length !== 10 is the rejection
PhoneOk(digits) == Len(digits) = PhoneLen

\* !data[field] || String(data[field]).trim() === ""
Blank(v) == Falsy(v) \/ Trim(JsString(v)) = <<>>

Required == <<"name", "email", "phone">>
\* Index in Required of the first blank field, 0 when none is blank.
FirstBlank(data) ==
  IF \E i \in 1..Len(Required) : Blank(data[Required[i]])
  THEN CHOOSE i \in 1..Len(Required) :
         /\ Blank(data[Required[i]])
         /\ \A j \in 1..(i - 1) : ~Blank(data[Required[j]])
  ELSE 0

\* ------------------------------------------------------- HTTP handlers
\* A handler's outcome: the response (status, body) and, when it saves, the
\* collection it writes.
Reply(status, body) == [status |-> status, body |-> body, save |-> FALSE, out |-> <<>>]
Saved(status, body, employees) ==
  [status |-> status, body |-> body, save |-> TRUE, out |-> employees]
Err(msg) == [error |-> msg]
NoBody == [empty |-> TRUE]

\* POST /api/employees
PostEmployee(employees, data) ==
  LET blank == FirstBlank(data)
      phoneDigits == PhoneDigits(data.phone)
      newEmployee ==
        [id |-> getNextId(employees),
         name |-> data.name,
         email |-> data.email,
         phone |-> Str(phoneDigits),
         role |-> OrElse(data.role, Str(<<>>)),
         department |-> OrElse(data.department, Str(<<>>)),
         salary |-> OrElse(data.salary, Num(0)),
         date_of_joining |-> OrElse(data.date_of_joining, Str(<<>>)),
         status |-> OrElse(data.status, Str(<<"A", "c", "t", "i", "v", "e">>))]
  IN IF blank # 0 THEN Reply("400", Err(<<Required[blank], "is required">>))
     ELSE IF ~PhoneOk(phoneDigits)
     THEN Reply("400", Err(<<"phone", "must be exactly 10 digits">>))
     ELSE Saved("201", newEmployee, Append(employees, newEmployee))

\* Variant: the id taken for a position in the collection.
GetEmployeeByPosition(employees, id) ==
  IF id \in 1..Len(employees) THEN Reply("200", employees[id])
  ELSE Reply("404", Err(<<"Employee not found">>))

\* GET /api/employees/:id
GetEmployee(employees, id) ==
  LET index == FindIndex(employees, id)
  IN IF index = 0 THEN Reply("404", Err(<<"Employee not found">>))
     ELSE Reply("200", employees[index])

\* Variant: replace semantics, an absent field falls back to its default.
MergeReplace(emp, data, updatedPhone) ==
  [emp EXCEPT
     !.name = Coalesce(data.name, emp.name),
     !.email = Coalesce(data.email, emp.email),
     !.phone = updatedPhone,
     !.role = Coalesce(data.role, Str(<<>>)),
     !.department = Coalesce(data.department, Str(<<>>)),
     !.salary = Coalesce(data.salary, Num(0)),
     !.date_of_joining = Coalesce(data.date_of_joining, Str(<<>>)),
     !.status = Coalesce(data.status, Str(<<"A", "c", "t", "i", "v", "e">>))]

\* employees[index] = { ...emp, name: data.name ?? emp.name, ... }
Merge(emp, data, updatedPhone) ==
  [emp EXCEPT
     !.name = Coalesce(data.name, emp.name),
     !.email = Coalesce(data.email, emp.email),
     !.phone = updatedPhone,
     !.role = Coalesce(data.role, emp.role),
     !.department = Coalesce(data.department, emp.department),
     !.salary = Coalesce(data.salary, emp.salary),
     !.date_of_joining = Coalesce(data.date_of_joining, emp.date_of_joining),
     !.status = Coalesce(data.status, emp.status)]

\* Variant: the other fields are merged and saved before the phone is checked.
PutEmployeeSavesBeforeCheck(employees, id, data) ==
  LET index == FindIndex(employees, id)
      emp == employees[index]
      phoneDigits == PhoneDigits(data.phone)
  IN IF index = 0 THEN Reply("404", Err(<<"Employee not found">>))
     ELSE IF data.phone.t # "undefined" /\ ~PhoneOk(phoneDigits)
     THEN Saved("400", Err(<<"phone", "must be exactly 10 digits">>),
                [employees EXCEPT ![index] = Merge(emp, data, emp.phone)])
     ELSE LET merged ==
                Merge(emp, data,
                      IF data.phone.t # "undefined" THEN Str(phoneDigits) ELSE emp.phone)
          IN Saved("200", merged, [employees EXCEPT ![index] = merged])

\* PUT /api/employees/:id
PutEmployee(employees, id, data) ==
  LET index == FindIndex(employees, id)
      emp == employees[index]
      phoneDigits == PhoneDigits(data.phone)
      updatedPhone == IF data.phone.t # "undefined" THEN Str(phoneDigits) ELSE emp.phone
      merged == Merge(emp, data, updatedPhone)
  IN IF index = 0 THEN Reply("404", Err(<<"Employee not found">>))
     ELSE IF data.phone.t # "undefined" /\ ~PhoneOk(phoneDigits)
     THEN Reply("400", Err(<<"phone", "must be exactly 10 digits">>))
     ELSE Saved("200", merged, [employees EXCEPT ![index] = merged])

\* DELETE /api/employees/:id
DeleteEmployee(employees, id) ==
  LET filtered == FilterOut(employees, id)
  IN IF Len(filtered) = Len(employees)
     THEN Reply("404", Err(<<"Employee not found">>))
     ELSE Saved("204", NoBody, filtered)

\* ------------------------------------------------------- tool handlers
\* Number of digits the create_employee schema asks of a phone.
SchemaPhoneLen == 10

Count(s, c) == Cardinality({i \in 1..Len(s) : s[i] = c})
IndexOf(s, c) == CHOOSE i \in 1..Len(s) : s[i] = c /\ \A j \in 1..(i - 1) : s[j] # c

\* z.string().email(), to the extent the inputs of this model need it: one
\* "@", a non-empty local part, a dotted domain, no blank.
EmailShape(s) ==
  /\ Count(s, "@") = 1
  /\ Count(s, " ") = 0
  /\ LET at == IndexOf(s, "@")
         domain == SubSeq(s, at + 1, Len(s))
     IN /\ at > 1
        /\ Count(domain, ".") >= 1
        /\ Head(domain) # "."
        /\ domain[Len(domain)] # "."

OptionalString(v) == v.t = "undefined" \/ IsStr(v)
OptionalNumber(v) == v.t = "undefined" \/ IsNum(v)

\* inputSchema of create_employee
CreateSchema(args) ==
  /\ IsStr(args.name) /\ Len(args.name.s) >= 1
  /\ IsStr(args.email) /\ EmailShape(args.email.s)
  /\ IsStr(args.phone)
  /\ Len(args.phone.s) = SchemaPhoneLen
  /\ \A i \in 1..Len(args.phone.s) : IsDigit(args.phone.s[i])
  /\ OptionalString(args.role)
  /\ OptionalString(args.department)
  /\ OptionalNumber(args.salary)
  /\ OptionalString(args.date_of_joining)
  /\ OptionalString(args.status)

\* create_employee: the handler runs only on arguments the schema accepts.
CreateTool(employees, args) ==
  LET newEmployee ==
        [id |-> mcpGetNextId(employees),
         name |-> args.name,
         email |-> args.email,
         phone |-> args.phone,
         role |-> OrElse(args.role, Str(<<>>)),
         department |-> OrElse(args.department, Str(<<>>)),
         salary |-> Coalesce(args.salary, Num(0)),
         date_of_joining |-> OrElse(args.date_of_joining, Str(<<>>)),
         status |-> OrElse(args.status, Str(<<"A", "c", "t", "i", "v", "e">>))]
  IN IF ~CreateSchema(args) THEN Reply("invalid arguments", Err(<<"schema">>))
     ELSE Saved("created", newEmployee, Append(employees, newEmployee))

\* delete_employee
DeleteTool(employees, id) ==
  LET filtered == FilterOut(employees, id)
  IN IF Len(filtered) = Len(employees)
     THEN Reply("no employee found", Err(<<"No employee found">>))
     ELSE Saved("deleted", NoBody, filtered)

\* ---------------------------------------------------------------- inputs
Ann == Str(<<"A", "n", "n">>)
Bob == Str(<<"B", "o", "b">>)
BlankName == Str(<<" ">>)
Empty == Str(<<>>)
MailA == Str(<<"a", "@", "x", ".", "c">>)
MailB == Str(<<"b", "@", "x", ".", "c">>)
MailPlain == Str(<<"a", "n", "n">>)
PhoneDashed == Str(<<"5", "5", "5", "-", "1", "2", "3", "-", "4", "5", "6", "7">>)
PhonePlain == Str(<<"5", "5", "5", "1", "2", "3", "4", "5", "6", "7">>)
PhonePadded == Str(<<" ", "9", "8", "7", "6", "5", "4", "3", "2", "1", "0", " ">>)
PhoneShort == Str(<<"1", "2", "3">>)
PhoneLong == Str(<<"5", "5", "5", "1", "2", "3", "4", "5", "6", "7", "8">>)
PhoneNumber == Num(1234567890)
Dev == Str(<<"D", "e", "v">>)
Day == Str(<<"2", "0", "2", "4", "-", "0", "1", "-", "0", "1">>)
Active == Str(<<"A", "c", "t", "i", "v", "e">>)
Inactive == Str(<<"I", "n", "a", "c", "t", "i", "v", "e">>)

DataFields ==
  {"name", "email", "phone", "role", "department", "salary", "date_of_joining", "status"}
\* A body that carries no field: every read of it is undefined.
NoData == [f \in DataFields |-> Undef]
Basic(name, email, phone) ==
  [NoData EXCEPT !.name = name, !.email = email, !.phone = phone]

\* Bodies of POST /api/employees
PostBodies ==
  { Basic(Ann, MailA, PhoneDashed),
    [Basic(Ann, MailA, PhonePlain) EXCEPT
       !.role = Null, !.department = Empty, !.salary = Num(0), !.status = Empty],
    [Basic(Bob, MailB, PhoneNumber) EXCEPT
       !.role = Dev, !.salary = Num(5), !.date_of_joining = Day, !.status = Inactive],
    Basic(BlankName, MailA, PhonePlain),
    Basic(Ann, Undef, PhonePlain),
    Basic(Ann, MailA, Str(<<" ", " ">>)),
    Basic(Ann, MailA, PhoneShort),
    Basic(Ann, MailA, PhoneLong) }

\* Bodies of PUT /api/employees/:id
PutBodies ==
  { [NoData EXCEPT !.status = Inactive],
    [name |-> Empty, email |-> MailPlain, phone |-> PhonePadded, role |-> Dev,
     department |-> Null, salary |-> Num(5), date_of_joining |-> Day,
     status |-> Inactive],
    [NoData EXCEPT !.phone = PhoneShort, !.status = Inactive],
    [NoData EXCEPT !.phone = PhoneLong, !.name = Bob],
    [NoData EXCEPT !.phone = Null] }

\* Arguments of create_employee
ToolArgs ==
  { Basic(Ann, MailA, PhonePlain),
    [Basic(Bob, MailB, Str(<<"1", "2", "3", "4", "5", "6", "7", "8", "9", "0">>)) EXCEPT
       !.role = Dev, !.salary = Num(5), !.date_of_joining = Day, !.status = Inactive],
    [Basic(BlankName, MailA, PhonePlain) EXCEPT !.status = Inactive],
    Basic(Ann, MailPlain, PhonePlain),
    Basic(Ann, MailA, PhoneDashed),
    Basic(Empty, MailA, PhonePlain) }

\* Ids a request may name; within the bounds one of them is always absent.
PathIds == 1..MaxId

\* ----------------------------------------------------------------- state
VARIABLES
  file,     \* the employees.json document
  last,     \* the request completed last: what it loaded and what it answered
  deleted,  \* history: the ids deleted and not assigned again since
  pc,       \* per process: "idle", or "loaded" between its load and its save
  snap,     \* per process: the collection its running request loaded
  req,      \* per process: its running request
  stale     \* per process: the write that landed after its running request loaded

vars == <<file, last, deleted, pc, snap, req, stale>>

Procs == {"http", "mcp"}
NoRequest == [op |-> "none", id |-> 0, data |-> NoData]
Request(op, id, data) == [op |-> op, id |-> id, data |-> data]
NoOverlap == [hit |-> FALSE]
Overlap(p, r, out) ==
  [hit |-> TRUE, proc |-> p, op |-> r.op, id |-> r.id, status |-> out.status,
   body |-> out.body]

\* What the handler of request r answers on the loaded collection.
Handle(r, employees) ==
  CASE r.op = "POST" -> PostEmployee(employees, r.data)
    [] r.op = "GET" -> GetEmployee(employees, r.id)
    [] r.op = "PUT" -> PutEmployee(employees, r.id, r.data)
    [] r.op = "DELETE" -> DeleteEmployee(employees, r.id)
    [] r.op = "create_employee" -> CreateTool(employees, r.data)
    [] r.op = "delete_employee" -> DeleteTool(employees, r.id)

IsCreate(out, employees) == out.save /\ Len(out.out) > Len(employees)

\* The model explores a Create only while the collection and the ids are
\* within the bounds.
WithinBounds(employees, out) ==
  IsCreate(out, employees) =>
     (Len(employees) < MaxRecords /\ out.body.id <= MaxId)

Observed(p, r, employees, out, overlap) ==
  [proc |-> p, op |-> r.op, id |-> r.id, data |-> r.data, loaded |-> employees,
   status |-> out.status, body |-> out.body, saved |-> out.save,
   reused |-> IsCreate(out, employees) /\ out.body.id \in deleted,
   overlap |-> overlap]

Init ==
  /\ file = NoFile
  /\ last = [proc |-> "none", op |-> "none", id |-> 0, data |-> NoData,
             loaded |-> <<>>, status |-> "none", body |-> NoBody, saved |-> FALSE,
             reused |-> FALSE, overlap |-> NoOverlap]
  /\ deleted = {}
  /\ pc = [p \in Procs |-> "idle"]
  /\ snap = [p \in Procs |-> <<>>]
  /\ req = [p \in Procs |-> NoRequest]
  /\ stale = [p \in Procs |-> NoOverlap]

\* The effect of process p answering request r on the collection it loaded.
Respond(p, r, employees, out, overlap) ==
  /\ WithinBounds(employees, out)
  /\ file' = IF out.save THEN saveEmployees(out.out) ELSE file
  /\ last' = Observed(p, r, employees, out, overlap)
  /\ deleted' =
       IF out.save
       THEN (deleted \cup (Ids(employees) \ Ids(out.out))) \ Ids(out.out)
       ELSE deleted

\* One request handled from its load to its response, nothing in between.
Serve(p, r) ==
  \E employees \in {loadEmployees(file)} :
    \E out \in {Handle(r, employees)} :
      /\ Respond(p, r, employees, out, NoOverlap)
      /\ UNCHANGED <<pc, snap, req, stale>>

\* No request is between its load and its save.
Idle == \A q \in Procs : pc[q] = "idle"

HttpPost ==
  /\ Idle
  /\ \E data \in PostBodies : Serve("http", Request("POST", 0, data))
HttpGet ==
  /\ Idle
  /\ \E id \in PathIds : Serve("http", Request("GET", id, NoData))
HttpPut ==
  /\ Idle
  /\ \E id \in PathIds : \E data \in PutBodies :
       Serve("http", Request("PUT", id, data))
HttpDelete ==
  /\ Idle
  /\ \E id \in PathIds : Serve("http", Request("DELETE", id, NoData))
McpCreate ==
  /\ Idle
  /\ \E args \in ToolArgs : Serve("mcp", Request("create_employee", 0, args))
McpDelete ==
  /\ Idle
  /\ \E id \in PathIds : Serve("mcp", Request("delete_employee", id, NoData))

Next ==
  \/ HttpPost
  \/ HttpGet
  \/ HttpPut
  \/ HttpDelete
  \/ McpCreate
  \/ McpDelete

Spec == Init /\ [][Next]_vars

\* ------------------------------------------------- two processes, one file
\* server.js and mcp-server.mjs are separate processes on the same document.
\* Each handles one request at a time (its handlers are synchronous), but the
\* read of one and the write of the other are separate file operations.
RaceHttpRequests ==
  { Request("POST", 0, Basic(Ann, MailA, PhoneDashed)),
    Request("PUT", 1, [NoData EXCEPT !.status = Inactive]),
    Request("PUT", 1, [NoData EXCEPT !.phone = PhoneShort, !.status = Inactive]),
    Request("DELETE", 1, NoData) }
RaceMcpRequests ==
  { Request("create_employee", 0,
            [Basic(Bob, MailB, PhonePlain) EXCEPT !.status = Inactive]),
    Request("create_employee", 0, Basic(Ann, MailA, PhoneDashed)),
    Request("delete_employee", 1, NoData),
    Request("delete_employee", 2, NoData) }

\* const employees = loadEmployees(), first statement of every handler
Load(p, r) ==
  /\ pc' = [pc EXCEPT ![p] = "loaded"]
  /\ snap' = [snap EXCEPT ![p] = loadEmployees(file)]
  /\ req' = [req EXCEPT ![p] = r]
  /\ stale' = [stale EXCEPT ![p] = NoOverlap]
  /\ UNCHANGED <<file, last, deleted>>

\* Variant: the handler reads the document again when it is about to save.
Reloaded(p) == loadEmployees(file)
\* The collection the rest of the handler works on.
Loaded(p) == snap[p]

\* The rest of the handler: validate, mutate, save, respond.
Finish(p) ==
  /\ \E employees \in {Loaded(p)} :
       \E out \in {Handle(req[p], employees)} :
         /\ Respond(p, req[p], employees, out, stale[p])
         /\ stale' =
              [q \in Procs |->
                 IF q = p THEN NoOverlap
                 ELSE IF out.save /\ pc[q] = "loaded" /\ snap[q] = snap[p]
                         /\ ~stale[q].hit
                      THEN Overlap(p, req[p], out)
                      ELSE stale[q]]
  /\ pc' = [pc EXCEPT ![p] = "idle"]
  /\ snap' = [snap EXCEPT ![p] = <<>>]
  /\ req' = [req EXCEPT ![p] = NoRequest]

HttpLoad ==
  /\ pc["http"] = "idle"
  /\ \E r \in RaceHttpRequests : Load("http", r)
HttpFinish ==
  /\ pc["http"] = "loaded"
  /\ Finish("http")
McpLoad ==
  /\ pc["mcp"] = "idle"
  /\ \E r \in RaceMcpRequests : Load("mcp", r)
McpFinish ==
  /\ pc["mcp"] = "loaded"
  /\ Finish("mcp")

NextRace ==
  \/ HttpLoad
  \/ HttpFinish
  \/ McpLoad
  \/ McpFinish

SpecRace == Init /\ [][NextRace]_vars

\* ---------------------------------------------------------------- claims
Records == loadEmployees(file)
Created == last.saved /\ last.op \in {"POST", "create_employee"}
ErrorStatuses == {"400", "404", "no employee found", "invalid arguments"}
SuccessStatuses == {"200", "201", "204", "created", "deleted"}
AllDigits(s) == \A i \in 1..Len(s) : IsDigit(s[i])
\* Number of digit characters of a submitted phone value.
DigitCount(v) ==
  CASE v.t = "string" -> Cardinality({i \in 1..Len(v.s) : IsDigit(v.s[i])})
    [] v.t = "number" -> Len(NumToStr(v.n))
    [] OTHER -> 0

\* C1: a successful Create (POST /api/employees or create_employee) returns
\* the id (maximum id of the collection it loaded) + 1, or 1 when that
\* collection was empty, and exactly one record of the persisted collection
\* carries that id.
C1_CreateAssignsMaxPlusOne ==
  Created =>
    /\ IF last.loaded = <<>> THEN last.body.id = 1
       ELSE /\ (last.body.id - 1) \in Ids(last.loaded)
            /\ \A k \in Ids(last.loaded) : k <= last.body.id - 1
    /\ Cardinality({i \in 1..Len(Records) : Records[i].id = last.body.id}) = 1

\* A tool Create on a collection whose ids have a gap below the maximum.
C1_Witness ==
  /\ Created
  /\ last.op = "create_employee"
  /\ last.loaded # <<>>
  /\ last.body.id > Len(last.loaded) + 1

\* C2: from the empty store, whatever Creates, Updates and Deletes have run,
\* no two records of the persisted collection carry the same id.
C2_IdsUnique ==
  \A i, j \in 1..Len(Records) : i # j => Records[i].id # Records[j].id

\* Two records persisted after a Delete and a Create following it, an Update
\* being the last operation.
C2_Witness ==
  /\ Len(Records) = 2
  /\ Records[1].id # 1
  /\ last.op = "PUT"
  /\ last.saved

\* C3 as stated: once a record with id k was deleted, no later Create returns
\* a record with id k.
C3_NeverReused == ~last.reused

\* C3 amended: a Create returns an id deleted before only when that id is
\* above the id of every record of the collection it loaded; a deleted id
\* below an id still in the collection is never handed out again.
C3_ReusedOnlyAboveAll ==
  last.reused => \A k \in Ids(last.loaded) : k < last.body.id

\* A Create that hands out a deleted id while other records exist.
C3_Witness == last.reused /\ last.loaded # <<>>

\* C4: the phone of every persisted record is a string of exactly 10 digit
\* characters, and a Create or an Update whose submitted phone does not hold
\* exactly 10 digits is rejected and saves nothing.
C4_PhoneTenDigits ==
  /\ \A i \in 1..Len(Records) :
       /\ IsStr(Records[i].phone)
       /\ Len(Records[i].phone.s) = 10
       /\ AllDigits(Records[i].phone.s)
  /\ (/\ \/ last.op \in {"POST", "create_employee"}
         \/ (last.op = "PUT" /\ last.data.phone.t # "undefined")
      /\ DigitCount(last.data.phone) # 10)
     => (~last.saved /\ last.status \in ErrorStatuses)

\* An Update whose phone came with blanks around it was saved.
C4_Witness ==
  /\ last.op = "PUT"
  /\ last.saved
  /\ last.data.phone = PhonePadded

\* C5 as stated: every persisted record has a name and an email that are
\* present and not the empty string.
C5_NameEmailNonEmpty ==
  \A i \in 1..Len(Records) :
    /\ Records[i].name \notin {Undef, Null, Empty}
    /\ Records[i].email \notin {Undef, Null, Empty}

\* C6: an operation that ends in an error (400, 404, the tool's "no employee
\* found" or a schema rejection) saves nothing, and the persisted collection
\* is the one the operation loaded.
C6_ErrorsLeaveStore ==
  last.status \in ErrorStatuses => (~last.saved /\ Records = last.loaded)

\* An Update rejected for its phone while its payload carries a valid status.
C6_Witness ==
  /\ last.op = "PUT"
  /\ last.status = "400"
  /\ last.data.status = Inactive
  /\ last.loaded # <<>>

\* C7: a successful Update changes only fields present in its payload, of the
\* record with that id only; the record keeps its id and position, the other
\* records and their order are as loaded, and the response is the record.
C7_UpdateFrame ==
  (last.op = "PUT" /\ last.status = "200") =>
    /\ Len(Records) = Len(last.loaded)
    /\ \E i \in 1..Len(Records) :
         /\ last.loaded[i].id = last.id
         /\ Records[i].id = last.id
         /\ Records[i] = last.body
         /\ \A f \in DataFields :
              last.data[f].t = "undefined" => Records[i][f] = last.loaded[i][f]
         /\ \A j \in 1..Len(Records) : j # i => Records[j] = last.loaded[j]

\* A status-only Update that changed the second of two records.
C7_Witness ==
  /\ last.op = "PUT"
  /\ last.status = "200"
  /\ last.data = [NoData EXCEPT !.status = Inactive]
  /\ Len(last.loaded) = 2
  /\ last.loaded[2].id = last.id
  /\ Records # last.loaded

\* The value a submitted optional field is stored as: its default when the
\* field is absent or empty, the submitted value otherwise.
Filled(v, default) ==
  IF v \in {Undef, Null, Str(<<>>), Num(0)} THEN default ELSE v
\* The record a Create input stands for: digits of the phone, defaults filled.
Submitted(id, data) ==
  [id |-> id,
   name |-> data.name,
   email |-> data.email,
   phone |-> Str(SelectSeq(JsString(data.phone), IsDigit)),
   role |-> Filled(data.role, Str(<<>>)),
   department |-> Filled(data.department, Str(<<>>)),
   salary |-> Filled(data.salary, Num(0)),
   date_of_joining |-> Filled(data.date_of_joining, Str(<<>>)),
   status |-> Filled(data.status, Active)]

BothCreate ==
  /\ last.op \in {"POST", "create_employee"}
  /\ last.overlap.op \in {"POST", "create_employee"}

\* C9: when two processes load the same collection before either saves and
\* both save, the document afterwards is the later writer's result on its own
\* snapshot (no merge), both were answered success, two Creates returned the
\* same id and only one record was added, and a Delete the earlier writer made
\* is undone.
C9_LastWriterWins ==
  (last.saved /\ last.overlap.hit) =>
    /\ Records = Handle(Request(last.op, last.id, last.data), last.loaded).out
    /\ last.status \in SuccessStatuses
    /\ last.overlap.status \in SuccessStatuses
    /\ last.overlap.proc # last.proc
    /\ BothCreate =>
         /\ last.body.id = last.overlap.body.id
         /\ Len(Records) = Len(last.loaded) + 1
         /\ (last.overlap.body # last.body => \A i \in 1..Len(Records) :
                                                Records[i] # last.overlap.body)
    /\ (/\ last.overlap.op \in {"DELETE", "delete_employee"}
        /\ ~(last.op \in {"DELETE", "delete_employee"} /\ last.id = last.overlap.id))
       => last.overlap.id \in Ids(Records)

\* Two overlapping Creates of different records, both answered success.
C9_Witness ==
  /\ last.saved
  /\ last.overlap.hit
  /\ BothCreate
  /\ last.overlap.body # last.body
  /\ last.loaded # <<>>

\* C10 as stated: whatever create_employee accepted and persisted, POST
\* /api/employees accepts on the same collection, persisting and returning
\* the same record.
C10_ToolRefinesPost ==
  (last.op = "create_employee" /\ last.saved) =>
    \E post \in {PostEmployee(last.loaded, last.data)} :
      /\ post.status = "201"
      /\ post.body = last.body
      /\ post.out = Records

====
